---- MODULE Spec2Model ----
(***************************************************************************)
(* Slot reservation of backend/app.py: the slots and appointments tables   *)
(* of the SQLite store, the request handlers book, cancel, admin_update    *)
(* and add_slot running on their own connections, and the expiry and       *)
(* reminder jobs of the background scheduler.                              *)
(*                                                                         *)
(* Each handler opens its own connection (db()).  A SELECT runs in         *)
(* autocommit mode and reads the committed store.  The first INSERT or     *)
(* UPDATE of a connection opens a transaction and takes the store's single *)
(* write lock; its writes stay private to the connection until             *)
(* conn.commit() publishes them in one step.  An exception leaves the      *)
(* handler before conn.commit(), and the dropped connection rolls back.    *)
(***************************************************************************)
EXTENDS Integers, Sequences, FiniteSets, TLC

\* ---------------------------------------------------------------- bounds
MaxSlots == 2
MaxAppts == 2
MaxTime == 1
TicksPerDay == 1
MaxSent == 2

Procs == {"r1", "r2"}

\* ------------------------------------------------------------- constants
None == 0
NoProc == "none"

Enum == {"RESERVED", "CONFIRMED", "CANCELLED", "EXPIRED"}
\* admin_update stores f["status"] as given: any string of the request
StatusInputs == Enum \cup {"OTHER"}

\* age (in ticks) a RESERVED appointment must exceed to be expired
ExpiryThreshold == 0

\* days ahead of an appointment in which the reminder job selects it
Lookahead == 1

\* a column no statement has set
Null == "NULL"
\* f["slot_date"] of add_slot, f["meeting_link"] and f["remarks"] of admin_update
SlotDateInputs == {MaxTime \div TicksPerDay}
LinkInputs == {"link"}
RemarkInputs == {"remark"}

VARIABLES
    db,      \* the committed store: [slots, appts]
    wdb,     \* the store as seen by the connection holding the write lock
    wlock,   \* the connection (request) holding the write lock, or NoProc
    now,     \* the clock, in ticks
    pc,      \* pc[p]: the statement worker p executes next ("idle": none)
    loc,     \* loc[p]: the locals of the request worker p serves
    res,     \* res[p]: the response of the last request worker p served
    sweepQ,  \* the appointments the running expiry job selected and has not written
    sent     \* sent[a]: the reminder signals emitted for appointment a

\* the state of the two scheduler jobs
sched == <<sweepQ, sent>>

vars == <<db, wdb, wlock, now, pc, loc, res, sweepQ, sent>>

\* ------------------------------------------------------- pure operators
DayOf(t) == t \div TicksPerDay

RECURSIVE Digits(_)
\* str(count): the decimal digits of a natural number
Digits(n) == IF n < 10 THEN <<n>> ELSE Append(Digits(n \div 10), n % 10)

RECURSIVE ZFill(_, _)
\* s.zfill(w): pad with zeros on the left up to width w, never truncate
ZFill(s, w) == IF Len(s) >= w THEN s ELSE ZFill(<<0>> \o s, w)

\* f"MB-{date}-{str(count).zfill(4)}"
MakeCode(t, count) == <<DayOf(t), ZFill(Digits(count), 4)>>

SlotIds(d) == 1 .. Len(d.slots)
ApptIds(d) == 1 .. Len(d.appts)

\* the availability read without its is_booked=0 test
SelectSlotAnyState(d, sid) == IF sid \in SlotIds(d) THEN sid ELSE None

\* SELECT * FROM slots WHERE id=? AND is_booked=0
SelectFreeSlot(d, sid) ==
    IF sid \in SlotIds(d) /\ ~d.slots[sid].is_booked THEN sid ELSE None

\* a sequence number that counts the reservations still open
CountReserved(d) ==
    Cardinality({a \in ApptIds(d) : d.appts[a].status = "RESERVED"}) + 1

\* SELECT COUNT(*) FROM appointments, plus one
NextCount(d) == Len(d.appts) + 1

\* INSERT INTO appointments (...) VALUES (..., 'RESERVED', now, now)
InsertAppointment(d, code, sid, t) ==
    [d EXCEPT !.appts = Append(@, [code |-> code, slot_id |-> sid,
                                   appointment_date |-> d.slots[sid].slot_date,
                                   status |-> "RESERVED",
                                   meeting_link |-> Null, admin_remarks |-> Null,
                                   created_at |-> t, updated_at |-> t])]

\* UPDATE slots SET is_booked=1 WHERE id=?
MarkBooked(d, sid) == [d EXCEPT !.slots[sid].is_booked = TRUE]

\* SELECT slot_id,status FROM appointments WHERE confirmation_code=? (fetchone):
\* the first row in rowid order, or None
SelectByCode(d, code) ==
    LET m == {a \in ApptIds(d) : d.appts[a].code = code}
    IN  IF m = {} THEN None ELSE CHOOSE a \in m : \A b \in m : a <= b

\* the test of cancel without its status comparison
CancelAppliesAnyStatus(d, a) == a # None

\* if appt and appt["status"] == "RESERVED"
CancelApplies(d, a) == a # None /\ d.appts[a].status = "RESERVED"

\* a cancel that deletes the rows of the code
DeleteByCode(d, code) ==
    [d EXCEPT !.appts = SelectSeq(@, LAMBDA r : r.code # code)]

\* UPDATE appointments SET status='CANCELLED' WHERE confirmation_code=?
SetCancelled(d, code) ==
    [d EXCEPT !.appts = [a \in ApptIds(d) |->
        IF d.appts[a].code = code
        THEN [d.appts[a] EXCEPT !.status = "CANCELLED"]
        ELSE d.appts[a]]]

\* UPDATE slots SET is_booked=0 WHERE id=?
ReleaseSlot(d, sid) ==
    [d EXCEPT !.slots = [s \in SlotIds(d) |->
        IF s = sid THEN [d.slots[s] EXCEPT !.is_booked = FALSE] ELSE d.slots[s]]]

\* a cancel that answers 404 when it has nothing to cancel, as status() does
CancelResponseNotFound(d, a) ==
    IF a # None /\ d.appts[a].status = "RESERVED" THEN "Success" ELSE "NotFound"

\* return jsonify({"success": True}), whatever was found
CancelResponse(d, a) == "Success"

\* a staff update that also frees the slot of an appointment it ends
UpdateReleasingSlot(d, id, st, link, rem, t) ==
    LET u == [d EXCEPT !.appts = [a \in ApptIds(d) |->
                 IF a = id
                 THEN [d.appts[a] EXCEPT !.status = st, !.meeting_link = link,
                                         !.admin_remarks = rem, !.updated_at = t]
                 ELSE d.appts[a]]]
    IN  IF id \in ApptIds(d) /\ st \in {"CANCELLED", "EXPIRED"}
        THEN ReleaseSlot(u, d.appts[id].slot_id)
        ELSE u

\* UPDATE appointments SET status=?, ..., updated_at=? WHERE id=?
UpdateAppointment(d, id, st, link, rem, t) ==
    [d EXCEPT !.appts = [a \in ApptIds(d) |->
        IF a = id
        THEN [d.appts[a] EXCEPT !.status = st, !.meeting_link = link,
                                !.admin_remarks = rem, !.updated_at = t]
        ELSE d.appts[a]]]

\* INSERT INTO slots VALUES (NULL,?,?,?,0)
InsertSlot(d, date) ==
    [d EXCEPT !.slots = Append(@, [slot_date |-> date, is_booked |-> FALSE])]

\* a failure that leaves the writes made so far in the store
KeepsPartialWrites(d, w) == w

\* the committed store after a handler raised before conn.commit(): the
\* connection is dropped and its transaction rolled back
RolledBack(d, w) == d

\* a selection predicate that forgets the age of the reservation
IsStaleAnyAge(d, a, t) == d.appts[a].status = "RESERVED"

\* the expiry job's write without its test of the status at write time
ExpireUnconditionally(d, a) ==
    ReleaseSlot([d EXCEPT !.appts[a].status = "EXPIRED"], d.appts[a].slot_id)

\* the appointment is marked EXPIRED and its slot is left booked
ExpireKeepsSlot(d, a) ==
    IF d.appts[a].status = "RESERVED"
    THEN [d EXCEPT !.appts[a].status = "EXPIRED"]
    ELSE d

\* the expiry job's write for one appointment: status to EXPIRED only if it is
\* still RESERVED, and the slot released, in one transaction
ExpireAppointment(d, a) ==
    IF d.appts[a].status = "RESERVED"
    THEN ReleaseSlot([d EXCEPT !.appts[a].status = "EXPIRED"], d.appts[a].slot_id)
    ELSE d

\* the expiry job's selection predicate
IsStale(d, a, t) ==
    d.appts[a].status = "RESERVED" /\ t - d.appts[a].created_at > ExpiryThreshold

\* the appointments one run of the expiry job selects
StaleSet(d, t) == {a \in ApptIds(d) : IsStale(d, a, t)}

\* the reminder job's selection: RESERVED or CONFIRMED, and the appointment
\* day within the lookahead window
ReminderSet(d, t) ==
    {a \in ApptIds(d) :
        /\ d.appts[a].status \in {"RESERVED", "CONFIRMED"}
        /\ d.appts[a].appointment_date - DayOf(t) \in 0 .. Lookahead}

RECURSIVE ExpireAll(_, _)
\* the writes of one run of the expiry job, one selected appointment after another
ExpireAll(d, S) ==
    IF S = {} THEN d
    ELSE LET a == CHOOSE x \in S : \A y \in S : x <= y
         IN  ExpireAll(ExpireAppointment(d, a), S \ {a})

\* one run of the expiry job on its own from store d at time t
SweepRun(d, t) == ExpireAll(d, StaleSet(d, t))

\* cancel run on its own from store d: lines 193-212 without interleaving
CancelRun(d, code) ==
    LET a == SelectByCode(d, code)
    IN  IF CancelApplies(d, a)
        THEN ReleaseSlot(SetCancelled(d, code), d.appts[a].slot_id)
        ELSE d

\* ------------------------------------------------------------ the state
NoLoc == [slot |-> None, code |-> <<>>, ts |-> 0]

BookPcs == {"book_count", "book_insert", "book_update", "book_commit"}
WritePcs == {"book_insert", "book_update", "book_commit",
             "cancel_upd_appt", "cancel_upd_slot", "cancel_commit"}

\* codes a cancel request may carry: every code a booking can produce
CodeInputs == {MakeCode(t, n) : t \in 0 .. MaxTime, n \in 1 .. MaxAppts}

Init ==
    /\ db = [slots |-> <<>>, appts |-> <<>>]
    /\ wdb = db
    /\ wlock = NoProc
    /\ now = 0
    /\ pc = [p \in Procs |-> "idle"]
    /\ loc = [p \in Procs |-> NoLoc]
    /\ res = [p \in Procs |-> "None"]
    /\ sweepQ = {}
    /\ sent = [a \in 1 .. MaxAppts |-> 0]

\* ----------------------------------------------------------------- book
\* lines 118-128: the availability read, and the early return
BookSelect(p, sid) ==
    /\ pc[p] = "idle"
    /\ Len(db.appts) + Cardinality({q \in Procs : pc[q] \in BookPcs}) < MaxAppts
    /\ LET slot == SelectFreeSlot(db, sid)
       IN  IF slot = None
           THEN /\ pc' = pc
                /\ res' = [res EXCEPT ![p] = "SlotUnavailable"]
                /\ loc' = loc
           ELSE /\ pc' = [pc EXCEPT ![p] = "book_count"]
                /\ res' = [res EXCEPT ![p] = "None"]
                /\ loc' = [loc EXCEPT ![p] = [NoLoc EXCEPT !.slot = slot]]
    /\ UNCHANGED <<db, wdb, wlock, now, sched>>

\* lines 130-132: the count read, the code and the timestamp
BookCount(p) ==
    /\ pc[p] = "book_count"
    /\ pc' = [pc EXCEPT ![p] = "book_insert"]
    /\ loc' = [loc EXCEPT ![p].code = MakeCode(now, NextCount(db)), ![p].ts = now]
    /\ UNCHANGED <<db, wdb, wlock, now, res, sched>>

\* lines 134-150: the insert opens the transaction
BookInsert(p) ==
    /\ pc[p] = "book_insert"
    /\ wlock = NoProc
    /\ wlock' = p
    /\ wdb' = InsertAppointment(db, loc[p].code, loc[p].slot, loc[p].ts)
    /\ pc' = [pc EXCEPT ![p] = "book_update"]
    /\ UNCHANGED <<db, now, loc, res, sched>>

\* lines 152-155
BookUpdate(p) ==
    /\ pc[p] = "book_update"
    /\ wdb' = MarkBooked(wdb, loc[p].slot)
    /\ pc' = [pc EXCEPT ![p] = "book_commit"]
    /\ UNCHANGED <<db, wlock, now, loc, res, sched>>

\* lines 157-163
BookCommit(p) ==
    /\ pc[p] = "book_commit"
    /\ db' = wdb
    /\ wdb' = wdb
    /\ wlock' = NoProc
    /\ pc' = [pc EXCEPT ![p] = "idle"]
    /\ res' = [res EXCEPT ![p] = "Confirmation"]
    /\ loc' = [loc EXCEPT ![p] = NoLoc]
    /\ UNCHANGED <<now, sched>>

\* --------------------------------------------------------------- cancel
\* lines 193-200, and 211-212 when the test fails
CancelSelect(p, code) ==
    /\ pc[p] = "idle"
    /\ LET a == SelectByCode(db, code)
       IN  IF CancelApplies(db, a)
           THEN /\ pc' = [pc EXCEPT ![p] = "cancel_upd_appt"]
                /\ res' = [res EXCEPT ![p] = "None"]
                /\ loc' = [loc EXCEPT ![p] =
                              [NoLoc EXCEPT !.code = code,
                                            !.slot = db.appts[a].slot_id]]
           ELSE /\ pc' = pc
                /\ res' = [res EXCEPT ![p] = CancelResponse(db, a)]
                /\ loc' = loc
    /\ UNCHANGED <<db, wdb, wlock, now, sched>>

\* the status update on a connection in autocommit mode: published at once
CancelUpdApptAutocommit(p) ==
    /\ pc[p] = "cancel_upd_appt"
    /\ wlock = NoProc
    /\ wlock' = p
    /\ db' = SetCancelled(db, loc[p].code)
    /\ wdb' = db'
    /\ pc' = [pc EXCEPT ![p] = "cancel_upd_slot"]
    /\ UNCHANGED <<now, loc, res, sched>>

\* lines 201-204: the update opens the transaction
CancelUpdAppt(p) ==
    /\ pc[p] = "cancel_upd_appt"
    /\ wlock = NoProc
    /\ wlock' = p
    /\ wdb' = SetCancelled(db, loc[p].code)
    /\ pc' = [pc EXCEPT ![p] = "cancel_upd_slot"]
    /\ UNCHANGED <<db, now, loc, res, sched>>

\* lines 205-208
CancelUpdSlot(p) ==
    /\ pc[p] = "cancel_upd_slot"
    /\ wdb' = ReleaseSlot(wdb, loc[p].slot)
    /\ pc' = [pc EXCEPT ![p] = "cancel_commit"]
    /\ UNCHANGED <<db, wlock, now, loc, res, sched>>

\* lines 209-212
CancelCommit(p) ==
    /\ pc[p] = "cancel_commit"
    /\ db' = wdb
    /\ wdb' = wdb
    /\ wlock' = NoProc
    /\ pc' = [pc EXCEPT ![p] = "idle"]
    /\ res' = [res EXCEPT ![p] = CancelResponse(db, SelectByCode(db, loc[p].code))]
    /\ loc' = [loc EXCEPT ![p] = NoLoc]
    /\ UNCHANGED <<now, sched>>

\* -------------------------------------------------------------- failure
\* a write statement or the commit raises (the store is locked by another
\* connection past the busy timeout, or the storage fails): the handler is
\* left before conn.commit()
Fail(p) ==
    /\ pc[p] \in WritePcs
    /\ db' = RolledBack(db, wdb)
    /\ wdb' = IF wlock = p THEN db' ELSE wdb
    /\ wlock' = IF wlock = p THEN NoProc ELSE wlock
    /\ pc' = [pc EXCEPT ![p] = "idle"]
    /\ res' = [res EXCEPT ![p] = "Fault"]
    /\ loc' = [loc EXCEPT ![p] = NoLoc]
    /\ UNCHANGED <<now, sched>>

\* ---------------------------------------------------------------- admin
\* lines 335-351: one UPDATE and its commit
AdminUpdate(id, st, link, rem) ==
    /\ wlock = NoProc
    /\ db' = UpdateAppointment(db, id, st, link, rem, now)
    /\ wdb' = db'
    /\ UNCHANGED <<wlock, now, pc, loc, res, sched>>

\* lines 321-330: one INSERT and its commit
AddSlot(date) ==
    /\ wlock = NoProc
    /\ Len(db.slots) < MaxSlots
    /\ db' = InsertSlot(db, date)
    /\ wdb' = db'
    /\ UNCHANGED <<wlock, now, pc, loc, res, sched>>

\* ------------------------------------------------------------ scheduler
\* auto_expire_reserved starts a run: it selects the stale reservations
SweepSelect ==
    /\ sweepQ = {}
    /\ sweepQ' = StaleSet(db, now)
    /\ UNCHANGED <<db, wdb, wlock, now, pc, loc, res, sent>>

\* auto_expire_reserved, for one selected appointment: its own transaction
ExpireSweep(a) ==
    /\ a \in sweepQ
    /\ wlock = NoProc
    /\ db' = ExpireAppointment(db, a)
    /\ wdb' = db'
    /\ sweepQ' = sweepQ \ {a}
    /\ UNCHANGED <<wlock, now, pc, loc, res, sent>>

\* the run meets a storage failure and is abandoned until the next interval
SweepAbandon ==
    /\ sweepQ # {}
    /\ sweepQ' = {}
    /\ UNCHANGED <<db, wdb, wlock, now, pc, loc, res, sent>>

\* send_reminders: one signal for every appointment selected
ReminderSweep ==
    /\ ReminderSet(db, now) # {}
    /\ \A a \in ReminderSet(db, now) : sent[a] < MaxSent
    /\ sent' = [a \in 1 .. MaxAppts |->
                    IF a \in ReminderSet(db, now) THEN sent[a] + 1 ELSE sent[a]]
    /\ UNCHANGED <<db, wdb, wlock, now, pc, loc, res, sweepQ>>

Tick ==
    /\ now < MaxTime
    /\ now' = now + 1
    /\ UNCHANGED <<db, wdb, wlock, pc, loc, res, sched>>

Next ==
    \/ \E p \in Procs, sid \in 1 .. MaxSlots + 1 : BookSelect(p, sid)
    \/ \E p \in Procs : BookCount(p)
    \/ \E p \in Procs : BookInsert(p)
    \/ \E p \in Procs : BookUpdate(p)
    \/ \E p \in Procs : BookCommit(p)
    \/ \E p \in Procs, code \in CodeInputs : CancelSelect(p, code)
    \/ \E p \in Procs : CancelUpdAppt(p)
    \/ \E p \in Procs : CancelUpdSlot(p)
    \/ \E p \in Procs : CancelCommit(p)
    \/ \E p \in Procs : Fail(p)
    \/ \E id \in 1 .. MaxAppts + 1, st \in StatusInputs,
          link \in LinkInputs, rem \in RemarkInputs : AdminUpdate(id, st, link, rem)
    \/ \E date \in SlotDateInputs : AddSlot(date)
    \/ SweepSelect
    \/ \E a \in 1 .. MaxAppts : ExpireSweep(a)
    \/ SweepAbandon
    \/ Tick

Spec == Init /\ [][Next]_vars

\* overlapping book and cancel requests with the clock and the expiry job;
\* admin_update is never called
PatientNext ==
    \/ \E p \in Procs, sid \in 1 .. MaxSlots + 1 : BookSelect(p, sid)
    \/ \E p \in Procs : BookCount(p)
    \/ \E p \in Procs : BookInsert(p)
    \/ \E p \in Procs : BookUpdate(p)
    \/ \E p \in Procs : BookCommit(p)
    \/ \E p \in Procs, code \in CodeInputs : CancelSelect(p, code)
    \/ \E p \in Procs : CancelUpdAppt(p)
    \/ \E p \in Procs : CancelUpdSlot(p)
    \/ \E p \in Procs : CancelCommit(p)
    \/ \E p \in Procs : Fail(p)
    \/ \E date \in SlotDateInputs : AddSlot(date)
    \/ SweepSelect
    \/ \E a \in 1 .. MaxAppts : ExpireSweep(a)
    \/ SweepAbandon
    \/ Tick

PatientSpec == Init /\ [][PatientNext]_vars

\* no request is in progress
AllIdle == \A q \in Procs : pc[q] = "idle"

\* book, cancel and add_slot each run to completion before the next request
\* starts, and admin_update is never called; the clock and the expiry job
\* run on their own
SeqNext ==
    \/ \E p \in Procs, sid \in 1 .. MaxSlots + 1 : AllIdle /\ BookSelect(p, sid)
    \/ \E p \in Procs : BookCount(p)
    \/ \E p \in Procs : BookInsert(p)
    \/ \E p \in Procs : BookUpdate(p)
    \/ \E p \in Procs : BookCommit(p)
    \/ \E p \in Procs, code \in CodeInputs : AllIdle /\ CancelSelect(p, code)
    \/ \E p \in Procs : CancelUpdAppt(p)
    \/ \E p \in Procs : CancelUpdSlot(p)
    \/ \E p \in Procs : CancelCommit(p)
    \/ \E p \in Procs : Fail(p)
    \/ \E date \in SlotDateInputs : AllIdle /\ AddSlot(date)
    \/ SweepSelect
    \/ \E a \in 1 .. MaxAppts : ExpireSweep(a)
    \/ SweepAbandon
    \/ Tick

SeqSpec == Init /\ [][SeqNext]_vars

\* one request at a time, and the only staff update is the confirmation of
\* an appointment
ConfirmNext ==
    \/ SeqNext
    \/ \E id \in 1 .. MaxAppts + 1, link \in LinkInputs, rem \in RemarkInputs :
          AdminUpdate(id, "CONFIRMED", link, rem)

ConfirmSpec == Init /\ [][ConfirmNext]_vars

\* the same, with the reminder job running between the other steps
RemindNext ==
    \/ ConfirmNext
    \/ ReminderSweep

RemindSpec == Init /\ [][RemindNext]_vars

\* ---------------------------------------------------------- helpers
Active == {"RESERVED", "CONFIRMED"}

ActiveOn(d, s) ==
    {a \in ApptIds(d) : d.appts[a].slot_id = s /\ d.appts[a].status \in Active}

CancelPcs == {"cancel_upd_appt", "cancel_upd_slot", "cancel_commit"}

\* worker p takes a step of the request it serves
Steps(p) == pc'[p] # pc[p] \/ res'[p] # res[p]

\* ------------------------------------------------------------------ C1
\* C1: in every reachable state a slot has is_booked = true if and only if
\* exactly one appointment on it has status RESERVED or CONFIRMED.
C1_BookedIffOneActive ==
    \A s \in SlotIds(db) :
        db.slots[s].is_booked <=> Cardinality(ActiveOn(db, s)) = 1

\* ------------------------------------------------------------------ C2
\* C2: of the book calls that overlap on one free slot only one succeeds: a
\* call that read the slot as free succeeds only if no other call has booked
\* the slot in the meantime; otherwise it answers slot-unavailable and inserts
\* nothing.
C2_OneBookerWins ==
    [][\A p \in Procs :
          (pc[p] = "book_commit" /\ res'[p] = "Confirmation")
              => ~db.slots[loc[p].slot].is_booked]_vars

\* ------------------------------------------------------------------ C3
\* C3: in every reachable state no two appointments carry the same
\* confirmation code.
C3_CodesUnique ==
    \A a, b \in ApptIds(db) : a # b => db.appts[a].code # db.appts[b].code

\* ------------------------------------------------------------------ C4
\* C4: from every reachable store and for every code, cancel run twice in
\* succession leaves the same appointments and slots as cancel run once, and
\* the second call answers success.
C4_CancelIdempotent ==
    \A code \in CodeInputs :
        LET once == CancelRun(db, code)
        IN  /\ CancelRun(once, code) = once
            /\ CancelResponse(once, SelectByCode(once, code)) = "Success"

\* a cancel has released the slot of the only appointment, and cancelling its
\* code again is the second call of the claim
C4_Witness ==
    /\ Len(db.appts) = 1
    /\ db.appts[1].status = "CANCELLED"
    /\ db.appts[1].updated_at = db.appts[1].created_at
    /\ ~db.slots[db.appts[1].slot_id].is_booked
    /\ \E p \in Procs : pc[p] = "idle" /\ res[p] = "Success"
    /\ \E q \in Procs : pc[q] = "idle" /\ res[q] = "Confirmation"

\* ------------------------------------------------------------------ C5
\* C5: a book on a slot that does not exist or is booked answers
\* slot-unavailable at once and changes no slot and no appointment; the slot
\* of a successful book is booked when the book returns, so a second book on
\* it is such a call.
C5_UnavailableRejected ==
    [][\A p \in Procs :
          /\ \A sid \in 1 .. MaxSlots + 1 :
                (Steps(p) /\ BookSelect(p, sid)
                   /\ (sid \notin SlotIds(db) \/ db.slots[sid].is_booked))
                    => /\ res'[p] = "SlotUnavailable"
                       /\ pc'[p] = "idle"
                       /\ db' = db /\ wdb' = wdb /\ wlock' = wlock
          /\ (pc[p] = "book_commit" /\ res'[p] = "Confirmation")
                => db'.slots[loc[p].slot].is_booked]_vars

\* one worker holds the confirmation of the only appointment, whose slot is
\* booked, and the other was answered slot-unavailable
C5_Witness ==
    /\ Len(db.appts) = 1
    /\ db.slots[db.appts[1].slot_id].is_booked
    /\ \E p, q \in Procs :
          /\ res[p] = "Confirmation" /\ pc[p] = "idle"
          /\ res[q] = "SlotUnavailable" /\ pc[q] = "idle"

\* ------------------------------------------------------------------ C6
\* C6: a successful book on a slot that is free adds one RESERVED appointment
\* on that slot with created_at = updated_at, books the slot, changes nothing
\* else, and returns a code whose sequence number is the number of
\* appointments before the insert plus one, zero-padded to four digits.
C6_BookEffect ==
    [][\A p \in Procs :
          (pc[p] = "book_commit" /\ res'[p] = "Confirmation"
             /\ ~db.slots[loc[p].slot].is_booked)
              => LET n == Len(db.appts)
                     s == loc[p].slot
                 IN  /\ Len(db'.appts) = n + 1
                     /\ db'.appts[n + 1].status = "RESERVED"
                     /\ db'.appts[n + 1].slot_id = s
                     /\ db'.appts[n + 1].created_at = db'.appts[n + 1].updated_at
                     /\ db'.appts[n + 1].code = loc[p].code
                     /\ \A a \in 1 .. n : db'.appts[a] = db.appts[a]
                     /\ Len(db'.slots) = Len(db.slots)
                     /\ db'.slots[s].is_booked
                     /\ \A t \in SlotIds(db) \ {s} : db'.slots[t] = db.slots[t]
                     /\ loc[p].code[2] = ZFill(Digits(n + 1), 4)]_vars

\* ------------------------------------------------------------------ C7
\* C7: every status is one of the four enum values and every change of a
\* status is RESERVED -> CONFIRMED, CANCELLED or EXPIRED, or
\* CONFIRMED -> CANCELLED.
Lifecycle ==
    {<<"RESERVED", "CONFIRMED">>, <<"RESERVED", "CANCELLED">>,
     <<"RESERVED", "EXPIRED">>, <<"CONFIRMED", "CANCELLED">>}

C7_LifecycleOnly ==
    [][/\ \A a \in ApptIds(db') : db'.appts[a].status \in Enum
       /\ \A a \in ApptIds(db) :
             db'.appts[a].status # db.appts[a].status
                 => <<db.appts[a].status, db'.appts[a].status>> \in Lifecycle]_vars

\* ------------------------------------------------------------------ C8
\* C8: a cancel whose code no appointment has, or whose appointments are
\* CONFIRMED, CANCELLED or EXPIRED, changes nothing and answers success.
C8_CancelNoOp ==
    [][\A p \in Procs, code \in CodeInputs :
          (Steps(p) /\ CancelSelect(p, code)
             /\ \A a \in ApptIds(db) :
                   db.appts[a].code = code
                       => db.appts[a].status \in Enum \ {"RESERVED"})
              => /\ res'[p] = "Success"
                 /\ pc'[p] = "idle"
                 /\ db' = db /\ wdb' = wdb /\ wlock' = wlock]_vars

\* the only appointment is CONFIRMED on its booked slot, and a cancel was
\* answered success: it cancelled nothing
C8_Witness ==
    /\ Len(db.appts) = 1
    /\ db.appts[1].status = "CONFIRMED"
    /\ db.slots[db.appts[1].slot_id].is_booked
    /\ \E p \in Procs : pc[p] = "idle" /\ res[p] = "Success"

\* ------------------------------------------------------------------ C9
\* C9: every step of a cancel that changes the committed store leaves the
\* appointments of its code CANCELLED and the slot it read released, both in
\* that one step.
C9_CancelAtomic ==
    [][\A p \in Procs :
          (pc[p] \in CancelPcs /\ Steps(p) /\ db' # db)
              => /\ \A a \in ApptIds(db') :
                       db'.appts[a].code = loc[p].code
                           => db'.appts[a].status = "CANCELLED"
                 /\ ~db'.slots[loc[p].slot].is_booked]_vars

\* a cancel has committed: the only appointment is CANCELLED, its slot free
C9_Witness ==
    /\ Len(db.appts) = 1
    /\ db.appts[1].status = "CANCELLED"
    /\ db.appts[1].updated_at = db.appts[1].created_at
    /\ ~db.slots[db.appts[1].slot_id].is_booked
    /\ \E p \in Procs : pc[p] = "idle" /\ res[p] = "Success"

\* ----------------------------------------------------------------- C10
\* C10: a book or cancel that fails after its availability or status read
\* leaves the committed store as it was and nothing of its transaction behind;
\* a step that commits a new appointment commits its slot as booked, and a
\* cancel step that commits a status CANCELLED commits the slot as released.
C10_AllOrNothing ==
    [][/\ \A p \in Procs :
             (pc[p] \in WritePcs /\ res'[p] = "Fault")
                 => /\ db' = db
                    /\ wlock' # p
                    /\ wlock' = NoProc => wdb' = db
       /\ Len(db'.appts) > Len(db.appts)
             => /\ Len(db'.appts) = Len(db.appts) + 1
                /\ db'.slots[db'.appts[Len(db'.appts)].slot_id].is_booked
       /\ \A p \in Procs :
             (pc[p] \in CancelPcs /\ Steps(p)
                /\ \E a \in ApptIds(db) :
                      /\ db.appts[a].status # "CANCELLED"
                      /\ db'.appts[a].status = "CANCELLED")
                 => ~db'.slots[loc[p].slot].is_booked]_vars

\* a request failed while it held the write lock at some point of a run in
\* which no appointment was ever committed: a book failed after its
\* availability read, and the slot it wanted is still free
C10_Witness ==
    /\ Len(db.appts) = 0
    /\ Len(db.slots) >= 1
    /\ ~db.slots[1].is_booked
    /\ wlock = NoProc
    /\ \E p \in Procs : pc[p] = "idle" /\ res[p] = "Fault"

\* ----------------------------------------------------------------- C11
\* a reservation the expiry job must expire at time t
Overdue(d, a, t) ==
    d.appts[a].status = "RESERVED" /\ t - d.appts[a].created_at > ExpiryThreshold

\* C11 as stated: one sweep expires every overdue reservation and frees its
\* slot, leaves every other appointment and the slot of every other
\* appointment as they were, and a second sweep changes nothing.
C11_SweepAsStated ==
    LET after == SweepRun(db, now)
    IN  /\ Len(after.appts) = Len(db.appts)
        /\ \A a \in ApptIds(db) :
              IF Overdue(db, a, now)
              THEN /\ after.appts[a].status = "EXPIRED"
                   /\ ~after.slots[db.appts[a].slot_id].is_booked
              ELSE /\ after.appts[a] = db.appts[a]
                   /\ after.slots[db.appts[a].slot_id] = db.slots[db.appts[a].slot_id]
        /\ SweepRun(after, now) = after

\* C11 amended: one sweep expires every overdue reservation and frees its
\* slot, leaves every other appointment as it was and every slot that no
\* overdue reservation references as it was, and a second sweep changes
\* nothing.
C11_SweepOnce ==
    LET after == SweepRun(db, now)
    IN  /\ Len(after.appts) = Len(db.appts)
        /\ Len(after.slots) = Len(db.slots)
        /\ \A a \in ApptIds(db) :
              IF Overdue(db, a, now)
              THEN /\ after.appts[a] = [db.appts[a] EXCEPT !.status = "EXPIRED"]
                   /\ ~after.slots[db.appts[a].slot_id].is_booked
              ELSE after.appts[a] = db.appts[a]
        /\ \A s \in SlotIds(db) :
              (\A a \in ApptIds(db) :
                  Overdue(db, a, now) => db.appts[a].slot_id # s)
                  => after.slots[s] = db.slots[s]
        /\ SweepRun(after, now) = after

\* a sweep has run: the first reservation is EXPIRED and its slot free, a
\* reservation made after it is within the threshold and holds its slot
C11_Witness ==
    /\ Len(db.appts) = 2
    /\ db.appts[1].status = "EXPIRED"
    /\ db.appts[1].meeting_link = Null
    /\ ~db.slots[db.appts[1].slot_id].is_booked
    /\ db.appts[2].status = "RESERVED"
    /\ ~Overdue(db, 2, now)
    /\ db.slots[db.appts[2].slot_id].is_booked
    /\ sweepQ = {}

\* ----------------------------------------------------------------- C12
\* C12: the write of the expiry job for an appointment it selected changes
\* the store only if the appointment is still RESERVED at that write: one
\* confirmed or cancelled in the meantime keeps its status and its slot.
C12_SweepWriteConditional ==
    [][\A a \in 1 .. MaxAppts :
          (a \in sweepQ /\ sweepQ' = sweepQ \ {a}
             /\ db.appts[a].status # "RESERVED")
              => db' = db]_vars

\* the expiry job has selected an appointment that was confirmed or
\* cancelled before the job's write for it
C12_Witness ==
    \E a \in sweepQ :
        /\ db.appts[a].status \in {"CONFIRMED", "CANCELLED"}
        /\ wlock = NoProc

\* ----------------------------------------------------------------- C13
\* the handlers run to completion once they hold the write lock, time
\* advances, and the expiry job keeps being run and gets the write lock
Fairness ==
    /\ WF_vars(Tick)
    /\ SF_vars(SweepSelect /\ wlock = NoProc)
    /\ \A a \in 1 .. MaxAppts : SF_vars(ExpireSweep(a))
    /\ \A p \in Procs :
          /\ WF_vars(BookUpdate(p)) /\ WF_vars(BookCommit(p))
          /\ WF_vars(CancelUpdSlot(p)) /\ WF_vars(CancelCommit(p))

FairSpec == ConfirmSpec /\ Fairness

\* the reservation is left alone: no cancel and no staff update has changed it
Unattended(a) ==
    /\ db.appts[a].status = "RESERVED"
    /\ db.appts[a].meeting_link = Null

\* C13: a reservation made early enough for the clock of the model to pass its
\* threshold is eventually EXPIRED with its slot free, unless it is cancelled
\* or updated by staff first.
C13_EventuallyExpired ==
    \A a \in 1 .. MaxAppts :
        (a \in ApptIds(db) /\ Unattended(a)
           /\ db.appts[a].created_at + ExpiryThreshold < MaxTime)
        ~> (/\ a \in ApptIds(db)
            /\ \/ db.appts[a].status = "CANCELLED"
               \/ db.appts[a].meeting_link # Null
               \/ /\ db.appts[a].status = "EXPIRED"
                  /\ ~db.slots[db.appts[a].slot_id].is_booked)

\* the expiry job has expired a reservation nobody attended to
C13_Witness ==
    \E a \in ApptIds(db) :
        /\ db.appts[a].status = "EXPIRED"
        /\ db.appts[a].meeting_link = Null
        /\ db.appts[a].updated_at = db.appts[a].created_at
        /\ ~db.slots[db.appts[a].slot_id].is_booked
        /\ now - db.appts[a].created_at > ExpiryThreshold

\* ----------------------------------------------------------------- C14
\* C14: no appointment is signalled more than once by the reminder job while
\* it stays in its reminder window (the window of an appointment never ends
\* within the clock of the model, so every signal for it is in one window).
C14_NotifiedOnce ==
    \A a \in 1 .. MaxAppts : sent[a] <= 1

\* ----------------------------------------------------------------- C15
\* C15: in every reachable store, admin_update on an existing id sets the
\* status given, whatever the status was, changes nothing of that appointment
\* but status, meeting_link, admin_remarks and updated_at, and changes no
\* slot and no other appointment; on an id no appointment has it changes
\* nothing. (AdminUpdate publishes UpdateAppointment of the committed store
\* in one step.)
C15_UpdateFrame ==
    \A id \in 1 .. MaxAppts + 1, st \in StatusInputs,
       link \in LinkInputs, rem \in RemarkInputs :
        LET after == UpdateAppointment(db, id, st, link, rem, now)
        IN  IF id \in ApptIds(db)
            THEN /\ after.appts[id].status = st
                 /\ after.appts[id] =
                       [db.appts[id] EXCEPT
                           !.status = after.appts[id].status,
                           !.meeting_link = after.appts[id].meeting_link,
                           !.admin_remarks = after.appts[id].admin_remarks,
                           !.updated_at = after.appts[id].updated_at]
                 /\ Len(after.appts) = Len(db.appts)
                 /\ \A b \in ApptIds(db) \ {id} : after.appts[b] = db.appts[b]
                 /\ after.slots = db.slots
            ELSE after = db

\* staff confirmed an appointment that was not RESERVED: its slot had been
\* released and stays free
C15_Witness ==
    \E a \in ApptIds(db) :
        /\ db.appts[a].status = "CONFIRMED"
        /\ db.appts[a].meeting_link # Null
        /\ ~db.slots[db.appts[a].slot_id].is_booked
        /\ \A b \in ApptIds(db) : db.appts[b].slot_id = db.appts[a].slot_id => b = a

\* ----------------------------------------------------------------- C16
\* a book request returns its confirmation in this step
BookSucceeds(p) ==
    pc[p] = "book_commit" /\ pc'[p] = "idle" /\ res'[p] = "Confirmation"

\* C16: no step removes or replaces an appointment or a slot record; the
\* number of appointments changes only in the step in which a book succeeds,
\* and then by exactly one.
C16_AppendOnly ==
    [][/\ Len(db'.slots) >= Len(db.slots)
       /\ Len(db'.appts) >= Len(db.appts)
       /\ \A s \in SlotIds(db) : db'.slots[s].slot_date = db.slots[s].slot_date
       /\ \A a \in ApptIds(db) :
             /\ db'.appts[a].code = db.appts[a].code
             /\ db'.appts[a].slot_id = db.appts[a].slot_id
             /\ db'.appts[a].created_at = db.appts[a].created_at
       /\ Len(db'.appts) # Len(db.appts) => \E p \in Procs : BookSucceeds(p)
       /\ \A p \in Procs :
             BookSucceeds(p) => Len(db'.appts) = Len(db.appts) + 1]_vars

\* two appointments were booked; one was cancelled and the other expired,
\* and both are still in the store
C16_Witness ==
    /\ Len(db.appts) = 2
    /\ db.appts[1].status = "CANCELLED"
    /\ db.appts[2].status = "EXPIRED"
    /\ db.appts[1].meeting_link = Null /\ db.appts[2].meeting_link = Null

\* ----------------------------------------------------------------- C17
\* C17: the commit of a cancel leaves unchanged every appointment of its code
\* that is not RESERVED when cancel writes (the store does not change between
\* the write and the commit), and leaves the slot of such an appointment as
\* it is.
C17_CancelOnlyReserved ==
    [][\A p \in Procs :
          CancelCommit(p)
              => \A a \in ApptIds(db) :
                    (db.appts[a].code = loc[p].code
                       /\ db.appts[a].status # "RESERVED")
                        => /\ db'.appts[a] = db.appts[a]
                           /\ db'.slots[db.appts[a].slot_id]
                                 = db.slots[db.appts[a].slot_id]]_vars

\* ----------------------------------------------------------------- C18
\* C18: the commit of a cancel whose code's appointments are already
\* CANCELLED leaves booked every slot that an active appointment of another
\* code holds.
C18_CancelKeepsRebookedSlot ==
    [][\A p \in Procs :
          (CancelCommit(p)
             /\ \A a \in ApptIds(db) :
                   db.appts[a].code = loc[p].code
                       => db.appts[a].status = "CANCELLED")
              => \A s \in SlotIds(db) :
                    (db.slots[s].is_booked
                       /\ \E b \in ApptIds(db) :
                             /\ db.appts[b].slot_id = s
                             /\ db.appts[b].status \in Active
                             /\ db.appts[b].code # loc[p].code)
                        => db'.slots[s].is_booked]_vars

\* ----------------------------------------------------------------- C19
\* C19: when book, cancel and add_slot run one at a time and admin_update is
\* never called, a slot is booked iff exactly one RESERVED appointment
\* references it, and no two appointments have the same confirmation code.
C19_SequentialInvariant ==
    /\ \A s \in SlotIds(db) :
          db.slots[s].is_booked
              <=> Cardinality({a \in ApptIds(db) :
                      db.appts[a].slot_id = s
                        /\ db.appts[a].status = "RESERVED"}) = 1
    /\ \A a, b \in ApptIds(db) :
          a # b => db.appts[a].code # db.appts[b].code

\* a slot was booked, released by a cancel and booked again on the same day:
\* two appointments reference it, one of them RESERVED
C19_Witness ==
    /\ Len(db.appts) = 2
    /\ db.appts[1].slot_id = db.appts[2].slot_id
    /\ db.appts[1].status = "CANCELLED"
    /\ db.appts[2].status = "RESERVED"
    /\ db.appts[1].code[1] = db.appts[2].code[1]
    /\ db.slots[db.appts[2].slot_id].is_booked
    /\ AllIdle

====
